---- MODULE Spec2Model ----
(***************************************************************************)
(* Quick_Find2_Bot: the guide catalog (a MongoDB collection), the          *)
(* paginated renderer and the per-user workflows of src/main.py.           *)
(*                                                                         *)
(* Strings are sequences of one-character strings, so that formatting a    *)
(* callback payload and parsing it back are computed, not assumed.         *)
(* A value that Python holds as None or as a missing dict key is the empty *)
(* sequence <<>>: every place of the code that reads such a value tests    *)
(* only its truthiness, and "" and None are both false.                    *)
(***************************************************************************)
EXTENDS Integers, Sequences, FiniteSets, TLC

\* ------------------------------------------------------------------ bounds
\* ObjectIds the store hands out in one run (1..MaxId); ids are never reused.
MaxId == 2
\* Message ids used by posts, forwards and forwarding provenance (1..MaxMsgId).
MaxMsgId == 1
\* Largest catalog the pagination specification starts from.
MaxCatalog == 10

\* --------------------------------------------------------- program constants
GUIDES_PER_PAGE == 7
\* The length below which save_guide_from_message rejects a text.
MIN_GUIDE_LEN == 50

\* ------------------------------------------------------------ configuration
\* Telegram user ids; ADMIN_ID may name either.
Users == {1, 2}
\* Origin chats: the archived channel and one other channel.
CHANNEL_ID == 10
OTHER_CHANNEL == CHANNEL_ID + 10
Channels == {CHANNEL_ID, OTHER_CHANNEL}
MsgIds == 1..MaxMsgId
Ids == 1..MaxId

\* ------------------------------------------------------------------ strings
None == <<>>

Min(a, b) == IF a < b THEN a ELSE b
Max(a, b) == IF a > b THEN a ELSE b

\* str.startswith
StartsWith(s, p) == Len(p) <= Len(s) /\ SubSeq(s, 1, Len(p)) = p

\* the offset of the first occurrence of p in s at or after offset i, or -1
RECURSIVE FindFrom(_, _, _)
FindFrom(s, p, i) ==
    IF i + Len(p) > Len(s) THEN -1
    ELSE IF SubSeq(s, i + 1, i + Len(p)) = p THEN i
    ELSE FindFrom(s, p, i + 1)

\* str.find: offset of the first occurrence of p in s, or -1
Find(s, p) == FindFrom(s, p, 0)

\* the `in` operator on strings
Contains(s, p) == Find(s, p) >= 0

\* str.split(sep)
RECURSIVE Split(_, _)
Split(s, sep) ==
    LET i == Find(s, sep)
    IN IF i < 0 THEN <<s>>
       ELSE <<SubSeq(s, 1, i)>> \o Split(SubSeq(s, i + Len(sep) + 1, Len(s)), sep)

\* str.split(sep, 1)[0]
SplitFirst(s, sep) ==
    LET i == Find(s, sep) IN IF i < 0 THEN s ELSE SubSeq(s, 1, i)

Whitespace == {" ", "\n"}

RECURSIVE LStrip(_)
LStrip(s) == IF s # <<>> /\ Head(s) \in Whitespace THEN LStrip(Tail(s)) ELSE s

RECURSIVE RStrip(_)
RStrip(s) ==
    IF s # <<>> /\ s[Len(s)] \in Whitespace THEN RStrip(SubSeq(s, 1, Len(s) - 1)) ELSE s

\* str.strip
Strip(s) == RStrip(LStrip(s))

Digits == <<"0", "1", "2", "3", "4", "5", "6", "7", "8", "9">>

\* str(n) for an integer
RECURSIVE NatStr(_)
NatStr(n) == IF n < 10 THEN <<Digits[n + 1]>> ELSE NatStr(n \div 10) \o <<Digits[(n % 10) + 1]>>

IntStr(n) == IF n < 0 THEN <<"-">> \o NatStr(-n) ELSE NatStr(n)

IsDigit(c) == \E d \in 1..10 : Digits[d] = c

DigitVal(c) == (CHOOSE d \in 1..10 : Digits[d] = c) - 1

RECURSIVE NatVal(_)
NatVal(s) == IF s = <<>> THEN 0 ELSE 10 * NatVal(SubSeq(s, 1, Len(s) - 1)) + DigitVal(s[Len(s)])

IsNatStr(s) == s # <<>> /\ \A i \in 1..Len(s) : IsDigit(s[i])

\* whether int(s) returns (it raises ValueError otherwise)
IsIntStr(s) == IsNatStr(s) \/ (s # <<>> /\ Head(s) = "-" /\ IsNatStr(Tail(s)))

\* int(s)
IntVal(s) == IF Head(s) = "-" THEN 0 - NatVal(Tail(s)) ELSE NatVal(s)

\* n copies of the filler character
Fill(n) == [i \in 1..n |-> "x"]

\* ------------------------------------------------------------------- state
VARIABLES
    ADMIN_ID,    \* os.environ.get("ADMIN_ID"): None or the administrator's id as text
    guides,      \* guides_collection: _id -> document
    nextId,      \* the next ObjectId the store assigns
    user_data,   \* context.user_data of each user
    conv,        \* each ConversationHandler's state for each user
    reply,       \* the messages the last handler sent or edited
    last,        \* the handler that ran last, for which user, on which update
    inflight     \* update_one calls the server has matched and not yet applied

vars == <<ADMIN_ID, guides, nextId, user_data, conv, reply, last, inflight>>

\* ---------------------------------------------------------- inbound messages
NoOrigin == [kind |-> "none", chat_id |-> 0, message_id |-> 0]

\* MessageOriginChannel carries chat and message_id; MessageOriginUser carries
\* neither, so reading forward_origin.chat on it raises AttributeError.
Origins ==
    {NoOrigin, [kind |-> "user", chat_id |-> 0, message_id |-> 0]}
    \cup {[kind |-> "channel", chat_id |-> c, message_id |-> m] : c \in Channels, m \in MsgIds}

\* Texts a post or a forward may carry: a 50-character text whose first line is
\* "a", one whose first line is "b", and a 49-character one.
TextA == <<"a", "\n">> \o Fill(MIN_GUIDE_LEN - 2)
TextB == <<" ", "b", "\n">> \o Fill(MIN_GUIDE_LEN - 3)
TextShort == <<"a", "\n">> \o Fill(MIN_GUIDE_LEN - 3)

\* A message body: plain text, a media caption, or neither.
Bodies ==
    {[text |-> TextA, caption |-> None],
     [text |-> None, caption |-> TextB],
     [text |-> TextShort, caption |-> None],
     [text |-> None, caption |-> None]}

Message(body, chat, mid, origin) ==
    [text |-> body.text, caption |-> body.caption, chat_id |-> chat,
     message_id |-> mid, forward_origin |-> origin]

\* Posts in the archived channel (some of them forwarded into it).
ChannelPosts ==
    {Message(b, CHANNEL_ID, m, o) : b \in Bodies, m \in MsgIds,
        o \in {NoOrigin, [kind |-> "channel", chat_id |-> OTHER_CHANNEL, message_id |-> 1]}}

\* Messages user u forwards to the bot in the private chat, whose id is u's:
\* another user's messages and posts of the archived channel.
ForwardedBy(u) ==
    {Message(b, u, m, o) : b \in Bodies, m \in MsgIds,
        o \in {o \in Origins : o.kind = "user" \/ (o.kind = "channel" /\ o.chat_id = CHANNEL_ID)}}

\* Text messages that are not commands: the two reply-keyboard labels (one
\* symbol stands for each label) and two short texts, which a user may type or
\* forward.
SEARCH_BUTTON == <<"S">>
MERGE_BUTTON == <<"M">>
ShortTexts == {<<"a">>, <<"b">>}
TypedTexts == {SEARCH_BUTTON, MERGE_BUTTON} \cup ShortTexts

\* --------------------------------------------------------------- the store
Identity(doc) == <<doc.original_chat_id, doc.original_message_id>>

\* documents matching {"original_message_id": m, "original_chat_id": c}
Matching(g, chat, mid) ==
    {i \in DOMAIN g : g[i].original_chat_id = chat /\ g[i].original_message_id = mid}

MinOf(S) == CHOOSE i \in S : \A j \in S : i <= j

\* for contrast, a filter that never matches: every upsert inserts
upsert_match_never(g, chat, mid) == 0

\* the first document the filter of an update_one matches (0: none)
upsert_match(g, chat, mid) ==
    IF Matching(g, chat, mid) = {} THEN 0 ELSE MinOf(Matching(g, chat, mid))

\* what update_one(filter, {"$set": doc}, upsert=True) writes once the filter
\* has been evaluated: $set on the matched document, or an insert under a new _id
upsert_apply(g, nid, matched, doc) ==
    IF matched # 0 /\ matched \in DOMAIN g
    THEN [g EXCEPT ![matched] = doc]
    ELSE [i \in DOMAIN g \cup {nid} |-> IF i = nid THEN doc ELSE g[i]]

\* update_one(filter, {"$set": doc}, upsert=True), as one call that nothing interleaves
update_one_upsert(g, nid, doc) ==
    upsert_apply(g, nid, upsert_match(g, doc.original_chat_id, doc.original_message_id), doc)

\* for contrast, a delete_one that removes nothing
delete_one_nothing(g, id) == g

\* delete_one({"_id": id})
delete_one(g, id) == [i \in DOMAIN g \ {id} |-> g[i]]

\* for contrast, an update whose filter matches every document
set_title_all(g, id, t) == [j \in DOMAIN g |-> [g[j] EXCEPT !.title = t]]

\* update_one({"_id": id}, {"$set": {"title": t}}): no match, no change
set_title(g, id, t) == IF id \in DOMAIN g THEN [g EXCEPT ![id].title = t] ELSE g

\* ObjectId <-> its text in a callback payload
IdStr(id) == NatStr(id)

\* whether ObjectId(s) returns (it raises InvalidId otherwise)
IsIdStr(s) == IsNatStr(s)

ObjectId(s) == NatVal(s)

\* ------------------------------------------------- save_guide_from_message
\* message.text or message.caption
guide_text_of(message) == IF message.text # None THEN message.text ELSE message.caption

\* guide_text.strip().split('\n', 1)[0]; no step of it raises, so the
\* except branch that would set "Guide" is never taken
derive_title(guide_text) == SplitFirst(Strip(guide_text), <<"\n">>)

\* for contrast, keying every record by the relaying message's own ids
canonical_identity_own(message) == <<message.chat_id, message.message_id>>

\* the (chat id, message id) pair the record is keyed by
canonical_identity(message) ==
    IF message.forward_origin.kind # "none"
    THEN <<message.forward_origin.chat_id, message.forward_origin.message_id>>
    ELSE <<message.chat_id, message.message_id>>

\* for contrast, a length test that also turns away a text of exactly 50
save_guide_from_message_over(message) ==
    LET guide_text == guide_text_of(message)
        key == canonical_identity(message)
    IN IF guide_text = None \/ Len(guide_text) <= MIN_GUIDE_LEN
       THEN [outcome |-> "rejected", doc |-> None]
       ELSE IF message.forward_origin.kind = "user"
       THEN [outcome |-> "raised", doc |-> None]
       ELSE [outcome |-> "saved",
             doc |-> [title |-> derive_title(guide_text),
                      original_message_id |-> key[2],
                      original_chat_id |-> key[1]]]

\* What the call does before it touches the store: "rejected" (returns None),
\* "raised" (forward_origin without .chat: AttributeError) or "saved", with the
\* document it upserts.
save_guide_from_message(message) ==
    LET guide_text == guide_text_of(message)
        key == canonical_identity(message)
    IN IF guide_text = None \/ Len(guide_text) < MIN_GUIDE_LEN
       THEN [outcome |-> "rejected", doc |-> None]
       ELSE IF message.forward_origin.kind = "user"
       THEN [outcome |-> "raised", doc |-> None]
       ELSE [outcome |-> "saved",
             doc |-> [title |-> derive_title(guide_text),
                      original_message_id |-> key[2],
                      original_chat_id |-> key[1]]]

\* ------------------------------------------------- build_guides_paginator
M_view == <<"v", "i", "e", "w">>
M_delete == <<"d", "e", "l", "e", "t", "e">>
M_edit == <<"e", "d", "i", "t">>
M_merge == <<"m", "e", "r", "g", "e">>
M_merge_second == M_merge \o <<"_", "s", "e", "c", "o", "n", "d">>
Modes == {M_view, M_delete, M_edit, M_merge, M_merge_second}
ActionModes == Modes \ {M_view}

Colon == <<":">>
P_page == <<"p", "a", "g", "e">>
D_noop == <<"n", "o", "o", "p">>
D_confirm_delete == <<"c", "o", "n", "f", "i", "r", "m", "_">> \o M_delete
D_cancel_delete == <<"c", "a", "n", "c", "e", "l", "_">> \o M_delete
D_confirm_merge == <<"c", "o", "n", "f", "i", "r", "m", "_">> \o M_merge
D_cancel_merge == <<"c", "a", "n", "c", "e", "l", "_">> \o M_merge
D_show_guides_start == <<"s", "h", "o", "w", "_", "g", "u", "i", "d", "e", "s", "_", "s", "t", "a", "r", "t">>

\* math.ceil(a / b) for the non-negative a and positive b the code passes
\* for contrast, a page count that rounds down
Ceil_floor(a, b) == a \div b

Ceil(a, b) == (a + b - 1) \div b

\* find().sort("original_message_id", 1): every order of the documents that is
\* ascending in original_message_id. The sort key is not unique, and the server
\* promises no order among documents that tie on it, nor the same order twice.
RECURSIVE SortedOrdersOf(_, _)
SortedOrdersOf(g, S) ==
    IF S = {} THEN {<<>>}
    ELSE LET firsts == {i \in S : \A j \in S :
                            g[i].original_message_id <= g[j].original_message_id}
         IN UNION {{<<x>> \o r : r \in SortedOrdersOf(g, S \ {x})} : x \in firsts}

SortedOrders(g) == SortedOrdersOf(g, DOMAIN g)

\* the deep link of a guide; chat ids here carry no "-100" prefix to strip
Link(doc) == <<doc.original_chat_id, doc.original_message_id>>

UrlButton(doc) == [kind |-> "view", text |-> None, callback_data |-> None, url |-> Link(doc)]

CallbackButton(kind, text, data) ==
    [kind |-> kind, text |-> text, callback_data |-> data, url |-> None]

\* for contrast, an empty keyboard where the code returns none
NoMarkup_empty_keyboard == [has |-> TRUE, rows |-> <<>>]

NoMarkup == [has |-> FALSE, rows |-> <<>>]

\* build_guides_paginator(page, mode), given the order the sorted find returned
build_guides_paginator(g, page, mode, order) ==
    LET guides_count == Cardinality(DOMAIN g)
        total_pages == Ceil(guides_count, GUIDES_PER_PAGE)
        p == Max(0, Min(page, total_pages - 1))
        guides_to_skip == p * GUIDES_PER_PAGE
        page_ids == SubSeq(order, guides_to_skip + 1,
                           Min(guides_to_skip + GUIDES_PER_PAGE, guides_count))
        callback_prefix == mode \o P_page
        item_rows == [k \in 1..Len(page_ids) |->
                        <<UrlButton(g[page_ids[k]]),
                          CallbackButton("action", None,
                                         mode \o Colon \o IdStr(page_ids[k]))>>]
        nav_buttons ==
            (IF p > 0
             THEN <<CallbackButton("prev", None, callback_prefix \o Colon \o IntStr(p - 1))>>
             ELSE <<>>)
            \o <<CallbackButton("counter", IntStr(p + 1) \o <<"/">> \o IntStr(total_pages),
                                D_noop)>>
            \o (IF p < total_pages - 1
                THEN <<CallbackButton("next", None, callback_prefix \o Colon \o IntStr(p + 1))>>
                ELSE <<>>)
    IN IF guides_count = 0
       THEN [text |-> [heading |-> "no_guides", items |-> <<>>], markup |-> NoMarkup]
       ELSE IF mode \in ActionModes
       THEN [text |-> [heading |-> IF mode = M_delete THEN "choose_delete"
                                   ELSE IF mode = M_edit THEN "choose_edit"
                                   ELSE IF mode = M_merge THEN "choose_first"
                                   ELSE "choose_second",
                       items |-> [k \in 1..Len(page_ids) |->
                                    [title |-> g[page_ids[k]].title, link |-> None]]],
             markup |-> [has |-> TRUE, rows |-> item_rows \o <<nav_buttons>>]]
       ELSE [text |-> [heading |-> "list",
                       items |-> [k \in 1..Len(page_ids) |->
                                    [title |-> g[page_ids[k]].title,
                                     link |-> Link(g[page_ids[k]])]]],
             markup |-> [has |-> TRUE, rows |-> <<nav_buttons>>]]

\* ------------------------------------------------------- messages sent
\* One outbound message: sent as a new message ("reply") or written over the
\* message that carried the control ("edit").
Sent(via, text, markup) == [via |-> via, text |-> text, markup |-> markup]

\* a notice that names the given titles
Notice(heading, titles) ==
    [heading |-> heading,
     items |-> [k \in 1..Len(titles) |-> [title |-> titles[k], link |-> None]]]

Markup(rows) == [has |-> TRUE, rows |-> rows]

\* reply_text(text, reply_markup=keyboard, ...) with what the paginator returned
SentPage(via, result) == Sent(via, result.text, result.markup)

\* the heading of the last message a handler sent ("none": it sent nothing)
Heading(msgs) == IF msgs = <<>> THEN "none" ELSE msgs[Len(msgs)].text.heading

\* ------------------------------------------------------------ sessions
EmptyData == [guide_to_edit |-> None, first_guide_id |-> None, first_guide_title |-> None]

END == "END"
SEARCH_QUERY == "SEARCH_QUERY"
EDIT_GUIDE_TITLE == "EDIT_GUIDE_TITLE"
Returned_None == "None"

\* ConversationHandler's bookkeeping of what a handler returned: END drops the
\* conversation, None leaves the state as it was, any other value becomes the state
update_state(current, returned) ==
    IF returned = END THEN END
    ELSE IF returned = Returned_None THEN current
    ELSE returned

\* for contrast, a guard that lets everyone through
is_admin_anyone(u) == TRUE

\* `not ADMIN_ID or str(update.effective_user.id) != ADMIN_ID` is false
is_admin(u) == ~(ADMIN_ID = None \/ IntStr(u) # ADMIN_ID)

\* The update a handler was given: a command or nothing (NoInput), a text
\* message that is typed or forwarded (filters.TEXT takes both), the payload of
\* a control, or a post or forwarded message to save.
NoMessage == Message([text |-> None, caption |-> None], 0, 0, NoOrigin)
NoInput == [text |-> None, forwarded |-> FALSE, data |-> None, message |-> NoMessage]
InText(text, forwarded) == [NoInput EXCEPT !.text = text, !.forwarded = forwarded]
InData(data) == [NoInput EXCEPT !.data = data]
InMessage(message, forwarded) ==
    [NoInput EXCEPT !.message = message, !.forwarded = forwarded]

\* What every handler leaves alone, and the record of which handler ran.
\* update_user_activity, which most handlers call first, writes users_collection
\* only; that collection is read by recent_users_command alone and is not kept here.
Ran(op, u, input, raised, msgs) ==
    /\ last' = [op |-> op, user |-> u, input |-> input, raised |-> raised]
    /\ reply' = msgs
    /\ UNCHANGED <<ADMIN_ID, inflight>>

\* ----------------------------------------------- which handler takes an update
\* search_conv_handler takes a text message (typed or forwarded, not a command)
InSearch(u) == conv[u].search = SEARCH_QUERY
\* edit_conv_handler sees it only when search_conv_handler does not take it
InEdit(u) == conv[u].edit = EDIT_GUIDE_TITLE

\* --------------------------------------------------------------- commands
start_command(u) ==
    /\ Ran("start_command", u, NoInput, FALSE,
           <<Sent("reply", Notice("start", <<>>),
                  Markup(<<<<CallbackButton("show_guides", None, D_show_guides_start)>>>>)),
             Sent("reply", Notice("use_search", <<>>), NoMarkup)>>)
    /\ UNCHANGED <<guides, nextId, user_data, conv>>

guides_command(u) ==
    \E order \in SortedOrders(guides) :
        /\ Ran("guides_command", u, NoInput, FALSE,
               <<SentPage("reply", build_guides_paginator(guides, 0, M_view, order))>>)
        /\ UNCHANGED <<guides, nextId, user_data, conv>>

\* the body shared by delete_command, edit_command and merge_command
admin_page_command(op, u, input, mode) ==
    /\ IF is_admin(u)
       THEN \E order \in SortedOrders(guides) :
                Ran(op, u, input, FALSE,
                    <<SentPage("reply", build_guides_paginator(guides, 0, mode, order))>>)
       ELSE Ran(op, u, input, FALSE, <<>>)
    /\ UNCHANGED <<guides, nextId, user_data>>

delete_command(u) ==
    /\ admin_page_command("delete_command", u, NoInput, M_delete)
    /\ UNCHANGED conv

edit_command(u) ==
    /\ admin_page_command("edit_command", u, NoInput, M_edit)
    /\ UNCHANGED conv

\* /merge, or the reply-keyboard label taken as merge_conv_handler's entry point;
\* the handler returns None, so that conversation is never entered
merge_command(u, typed) ==
    /\ typed => (~InSearch(u) /\ ~InEdit(u))
    /\ admin_page_command("merge_command", u,
                          IF typed THEN InText(MERGE_BUTTON, FALSE) ELSE NoInput, M_merge)
    /\ conv' = IF typed
               THEN [conv EXCEPT ![u].merge = update_state(conv[u].merge, Returned_None)]
               ELSE conv

recent_users_command(u) ==
    /\ Ran("recent_users_command", u, NoInput, FALSE,
           IF is_admin(u) THEN <<Sent("reply", Notice("recent_users", <<>>), NoMarkup)>>
           ELSE <<>>)
    /\ UNCHANGED <<guides, nextId, user_data, conv>>

\* ------------------------------------------------- conversation handlers
search_start(u) ==
    /\ ~InSearch(u)
    /\ Ran("search_start", u, InText(SEARCH_BUTTON, FALSE), FALSE,
           <<Sent("reply", Notice("ask_query", <<>>), NoMarkup)>>)
    /\ conv' = [conv EXCEPT ![u].search = update_state(conv[u].search, SEARCH_QUERY)]
    /\ UNCHANGED <<guides, nextId, user_data>>

\* find({"title": {"$regex": query, "$options": "i"}}), in the store's own order;
\* the texts here hold no regex metacharacter and no upper case
search_results(g, query) ==
    LET hit(k) == k \in DOMAIN g /\ Contains(g[k].title, query)
        F[k \in 0..MaxId + 1] ==
            IF k = 0 THEN <<>>
            ELSE IF hit(k) THEN F[k - 1] \o <<g[k].title>> ELSE F[k - 1]
    IN F[MaxId + 1]

perform_search(u, query, forwarded) ==
    /\ InSearch(u)
    /\ Ran("perform_search", u, InText(query, forwarded), FALSE,
           IF search_results(guides, query) = <<>>
           THEN <<Sent("reply", Notice("no_results", <<>>), NoMarkup)>>
           ELSE <<Sent("reply", Notice("search_results", search_results(guides, query)),
                       NoMarkup)>>)
    /\ conv' = [conv EXCEPT ![u].search = update_state(conv[u].search, END)]
    /\ UNCHANGED <<guides, nextId, user_data>>

\* the entry point of edit_conv_handler: CallbackQueryHandler(pattern="^edit:")
EditEntry(u, data) == ~InEdit(u) /\ StartsWith(data, M_edit \o Colon)

\* for contrast, an entry point that keeps the selection and the conversation
\* state in one place for all users
edit_guide_start_shared(u, data) ==
    /\ EditEntry(u, data)
    /\ Ran("edit_guide_start", u, InData(data), FALSE, <<Sent("edit", Notice("ask_title", <<>>), NoMarkup)>>)
    /\ user_data' = [v \in Users |-> [user_data[v] EXCEPT !.guide_to_edit = Split(data, Colon)[2]]]
    /\ conv' = [v \in Users |-> [conv[v] EXCEPT !.edit = EDIT_GUIDE_TITLE]]
    /\ UNCHANGED <<guides, nextId>>

edit_guide_start(u, data) ==
    /\ EditEntry(u, data)
    /\ Ran("edit_guide_start", u, InData(data), FALSE, <<Sent("edit", Notice("ask_title", <<>>), NoMarkup)>>)
    /\ user_data' = [user_data EXCEPT ![u].guide_to_edit = Split(data, Colon)[2]]
    /\ conv' = [conv EXCEPT ![u].edit = update_state(conv[u].edit, EDIT_GUIDE_TITLE)]
    /\ UNCHANGED <<guides, nextId>>

update_guide_title(u, new_title, forwarded) ==
    LET guide_id_str == user_data[u].guide_to_edit
    IN /\ ~InSearch(u)
       /\ new_title # SEARCH_BUTTON
       /\ InEdit(u)
       /\ IF guide_id_str = None
          THEN /\ Ran("update_guide_title", u, InText(new_title, forwarded), FALSE,
                      <<Sent("reply", Notice("edit_error", <<>>), NoMarkup)>>)
               /\ conv' = [conv EXCEPT ![u].edit = update_state(conv[u].edit, END)]
               /\ UNCHANGED <<guides, user_data>>
          ELSE IF ~IsIdStr(guide_id_str)
          THEN /\ Ran("update_guide_title", u, InText(new_title, forwarded), TRUE, <<>>)
               /\ UNCHANGED <<guides, user_data, conv>>
          ELSE /\ guides' = set_title(guides, ObjectId(guide_id_str), new_title)
               /\ Ran("update_guide_title", u, InText(new_title, forwarded), FALSE,
                      <<Sent("reply", Notice("title_updated", <<new_title>>), NoMarkup)>>)
               /\ user_data' = [user_data EXCEPT ![u] = EmptyData]
               /\ conv' = [conv EXCEPT ![u].edit = update_state(conv[u].edit, END)]
       /\ UNCHANGED nextId

\* /cancel is a fallback of each conversation; the first handler whose
\* conversation is active takes it
cancel_conversation(u) ==
    /\ InSearch(u) \/ InEdit(u) \/ conv[u].merge # END
    /\ Ran("cancel_conversation", u, NoInput, FALSE,
           <<Sent("reply", Notice("cancelled", <<>>), NoMarkup)>>)
    /\ user_data' = [user_data EXCEPT ![u] = EmptyData]
    /\ conv' = IF InSearch(u)
               THEN [conv EXCEPT ![u].search = update_state(conv[u].search, END)]
               ELSE IF InEdit(u)
               THEN [conv EXCEPT ![u].edit = update_state(conv[u].edit, END)]
               ELSE [conv EXCEPT ![u].merge = update_state(conv[u].merge, END)]
    /\ UNCHANGED <<guides, nextId>>

\* /cancel with no conversation active: no handler is registered for it, the
\* update is dropped
cancel_unhandled(u) ==
    /\ ~(InSearch(u) \/ InEdit(u) \/ conv[u].merge # END)
    /\ Ran("cancel_unhandled", u, NoInput, FALSE, <<>>)
    /\ UNCHANGED <<guides, nextId, user_data, conv>>

\* ---------------------------------------------------------- button_callback
\* for contrast, a chain that tests the delete prefix first and without its colon
Route_prefix_first(data) ==
    IF data = D_noop THEN "noop"
    ELSE IF StartsWith(data, M_delete) THEN "delete"
    ELSE IF Contains(data, P_page \o Colon) THEN "page"
    ELSE "other"

\* the branch of button_callback's if/elif chain that a payload takes
Route(data) ==
    IF data = D_noop THEN "noop"
    ELSE IF Contains(data, P_page \o Colon) THEN "page"
    ELSE IF StartsWith(data, M_delete \o Colon) THEN "delete"
    ELSE IF StartsWith(data, D_confirm_delete \o Colon) THEN "confirm_delete"
    ELSE IF data = D_cancel_delete THEN "cancel_delete"
    ELSE IF StartsWith(data, M_merge \o Colon) THEN "merge"
    ELSE IF StartsWith(data, M_merge_second \o Colon) THEN "merge_second"
    ELSE IF StartsWith(data, D_confirm_merge \o Colon) THEN "confirm_merge"
    ELSE IF data = D_cancel_merge THEN "cancel_merge"
    ELSE IF data = D_show_guides_start THEN "show_guides_start"
    ELSE "other"

\* button_callback gets every callback query edit_conv_handler did not take
Routed(u, data, branch) == ~EditEntry(u, data) /\ Route(data) = branch

\* guide.get('title', '')[:50]
Preview(title) == SubSeq(title, 1, Min(Len(title), 50))

\* branches that only answer the query: "noop", and payloads no branch matches
button_callback_noop(u, data) ==
    /\ Routed(u, data, "noop") \/ Routed(u, data, "other")
    /\ Ran("button_callback_noop", u, InData(data), FALSE, <<>>)
    /\ UNCHANGED <<guides, nextId, user_data, conv>>

button_callback_page(u, data) ==
    LET parts == Split(data, P_page \o Colon)
    IN /\ Routed(u, data, "page")
       /\ IF Len(parts) # 2 \/ ~IsIntStr(parts[2])
          THEN Ran("button_callback_page", u, InData(data), TRUE, <<>>)
          ELSE \E order \in SortedOrders(guides) :
                   Ran("button_callback_page", u, InData(data), FALSE,
                       <<SentPage("edit", build_guides_paginator(guides, IntVal(parts[2]),
                                                                 parts[1], order))>>)
       /\ UNCHANGED <<guides, nextId, user_data, conv>>

\* for contrast, a delete-select that removes the guide without asking
button_callback_delete_at_once(u, data) ==
    LET guide_id_str == Split(data, Colon)[2]
    IN /\ Routed(u, data, "delete")
       /\ IsIdStr(guide_id_str)
       /\ guides' = delete_one(guides, ObjectId(guide_id_str))
       /\ Ran("button_callback_delete", u, InData(data), FALSE,
              <<Sent("edit", Notice("deleted", <<>>), NoMarkup)>>)
       /\ UNCHANGED <<nextId, user_data, conv>>

button_callback_delete(u, data) ==
    LET guide_id_str == Split(data, Colon)[2]
        id == ObjectId(guide_id_str)
    IN /\ Routed(u, data, "delete")
       /\ IF ~IsIdStr(guide_id_str)
          THEN Ran("button_callback_delete", u, InData(data), TRUE, <<>>)
          ELSE IF id \in DOMAIN guides
          THEN Ran("button_callback_delete", u, InData(data), FALSE,
                   <<Sent("edit", Notice("confirm_delete", <<Preview(guides[id].title)>>),
                          Markup(<<<<CallbackButton("yes", None,
                                                    D_confirm_delete \o Colon \o guide_id_str),
                                     CallbackButton("no", None, D_cancel_delete)>>>>))>>)
          ELSE Ran("button_callback_delete", u, InData(data), FALSE, <<>>)
       /\ UNCHANGED <<guides, nextId, user_data, conv>>

\* for contrast, a branch that does not look at deleted_count
button_callback_confirm_delete_unchecked(u, data) ==
    LET guide_id_str == Split(data, Colon)[2]
    IN /\ Routed(u, data, "confirm_delete")
       /\ IsIdStr(guide_id_str)
       /\ guides' = delete_one(guides, ObjectId(guide_id_str))
       /\ Ran("button_callback_confirm_delete", u, InData(data), FALSE,
              <<Sent("edit", Notice("deleted", <<>>), NoMarkup)>>)
       /\ UNCHANGED <<nextId, user_data, conv>>

button_callback_confirm_delete(u, data) ==
    LET guide_id_str == Split(data, Colon)[2]
        id == ObjectId(guide_id_str)
    IN /\ Routed(u, data, "confirm_delete")
       /\ IF ~IsIdStr(guide_id_str)
          THEN /\ Ran("button_callback_confirm_delete", u, InData(data), TRUE, <<>>)
               /\ UNCHANGED guides
          ELSE /\ guides' = delete_one(guides, id)
               /\ Ran("button_callback_confirm_delete", u, InData(data), FALSE,
                      IF id \in DOMAIN guides
                      THEN <<Sent("edit", Notice("deleted", <<>>), NoMarkup)>>
                      ELSE <<Sent("edit", Notice("not_found", <<>>), NoMarkup)>>)
       /\ UNCHANGED <<nextId, user_data, conv>>

\* for contrast, a 'no' that removes the oldest guide all the same
button_callback_cancel_delete_removing(u, data) ==
    /\ Routed(u, data, "cancel_delete")
    /\ Ran("button_callback_cancel_delete", u, InData(data), FALSE,
           <<Sent("edit", Notice("delete_cancelled", <<>>), NoMarkup)>>)
    /\ guides' = IF DOMAIN guides = {} THEN guides
                 ELSE delete_one(guides, MinOf(DOMAIN guides))
    /\ UNCHANGED <<nextId, user_data, conv>>

button_callback_cancel_delete(u, data) ==
    /\ Routed(u, data, "cancel_delete")
    /\ Ran("button_callback_cancel_delete", u, InData(data), FALSE,
           <<Sent("edit", Notice("delete_cancelled", <<>>), NoMarkup)>>)
    /\ UNCHANGED <<guides, nextId, user_data, conv>>

button_callback_merge(u, data) ==
    LET guide_id_str == Split(data, Colon)[2]
        id == ObjectId(guide_id_str)
    IN /\ Routed(u, data, "merge")
       /\ IF ~IsIdStr(guide_id_str)
          THEN /\ Ran("button_callback_merge", u, InData(data), TRUE, <<>>)
               /\ UNCHANGED user_data
          ELSE IF id \in DOMAIN guides
          THEN /\ user_data' = [user_data EXCEPT ![u].first_guide_id = guide_id_str,
                                                 ![u].first_guide_title = guides[id].title]
               /\ \E order \in SortedOrders(guides) :
                      Ran("button_callback_merge", u, InData(data), FALSE,
                          <<Sent("edit", Notice("first_selected", <<guides[id].title>>),
                                 build_guides_paginator(guides, 0, M_merge_second,
                                                        order).markup)>>)
          ELSE /\ Ran("button_callback_merge", u, InData(data), FALSE, <<>>)
               /\ UNCHANGED user_data
       /\ UNCHANGED <<guides, nextId, conv>>

\* for contrast, a branch that does not test whether a first guide was picked
button_callback_merge_second_unordered(u, data) ==
    LET second_guide_id_str == Split(data, Colon)[2]
        second == ObjectId(second_guide_id_str)
    IN /\ Routed(u, data, "merge_second")
       /\ IF ~IsIdStr(second_guide_id_str)
          THEN Ran("button_callback_merge_second", u, InData(data), TRUE, <<>>)
          ELSE IF second \in DOMAIN guides
          THEN Ran("button_callback_merge_second", u, InData(data), FALSE,
                   <<Sent("edit",
                          Notice("confirm_merge",
                                 <<user_data[u].first_guide_title, guides[second].title>>),
                          Markup(<<<<CallbackButton("yes", None,
                                        D_confirm_merge \o Colon \o user_data[u].first_guide_id
                                            \o Colon \o second_guide_id_str)>>,
                                   <<CallbackButton("no", None, D_cancel_merge)>>>>))>>)
          ELSE Ran("button_callback_merge_second", u, InData(data), FALSE, <<>>)
       /\ UNCHANGED <<guides, nextId, user_data, conv>>

button_callback_merge_second(u, data) ==
    LET second_guide_id_str == Split(data, Colon)[2]
        second == ObjectId(second_guide_id_str)
        first_guide_id == user_data[u].first_guide_id
        first_guide_title == user_data[u].first_guide_title
    IN /\ Routed(u, data, "merge_second")
       /\ IF first_guide_id = None
          THEN Ran("button_callback_merge_second", u, InData(data), FALSE,
                   <<Sent("edit", Notice("merge_error", <<>>), NoMarkup)>>)
          ELSE IF ~IsIdStr(second_guide_id_str)
          THEN Ran("button_callback_merge_second", u, InData(data), TRUE, <<>>)
          ELSE IF second \in DOMAIN guides
          THEN Ran("button_callback_merge_second", u, InData(data), FALSE,
                   <<Sent("edit",
                          Notice("confirm_merge", <<first_guide_title, guides[second].title>>),
                          Markup(<<<<CallbackButton("yes", None,
                                        D_confirm_merge \o Colon \o first_guide_id
                                            \o Colon \o second_guide_id_str)>>,
                                   <<CallbackButton("no", None, D_cancel_merge)>>>>))>>)
          ELSE Ran("button_callback_merge_second", u, InData(data), FALSE, <<>>)
       /\ UNCHANGED <<guides, nextId, user_data, conv>>

\* the merge itself is left as a comment in the code: the branch reports success
\* and clears the session, and calls nothing on the store
button_callback_confirm_merge(u, data) ==
    LET guide_ids == Tail(Split(data, Colon))
    IN /\ Routed(u, data, "confirm_merge")
       /\ IF Len(guide_ids) = 2
          THEN /\ Ran("button_callback_confirm_merge", u, InData(data), FALSE,
                      <<Sent("edit", Notice("merged", <<>>), NoMarkup)>>)
               /\ user_data' = [user_data EXCEPT ![u] = EmptyData]
          ELSE /\ Ran("button_callback_confirm_merge", u, InData(data), FALSE, <<>>)
               /\ UNCHANGED user_data
       /\ UNCHANGED <<guides, nextId, conv>>

button_callback_cancel_merge(u, data) ==
    /\ Routed(u, data, "cancel_merge")
    /\ Ran("button_callback_cancel_merge", u, InData(data), FALSE,
           <<Sent("edit", Notice("merge_cancelled", <<>>), NoMarkup)>>)
    /\ user_data' = [user_data EXCEPT ![u] = EmptyData]
    /\ UNCHANGED <<guides, nextId, conv>>

button_callback_show_guides(u, data) ==
    /\ Routed(u, data, "show_guides_start")
    /\ \E order \in SortedOrders(guides) :
           Ran("button_callback_show_guides", u, InData(data), FALSE,
               <<SentPage("reply", build_guides_paginator(guides, 0, M_view, order))>>)
    /\ UNCHANGED <<guides, nextId, user_data, conv>>

\* -------------------------------------------------------------- submissions
\* the upsert of a saved document, as the single blocking call the handler makes
Upserted(doc) ==
    LET matched == upsert_match(guides, doc.original_chat_id, doc.original_message_id)
    IN /\ matched # 0 \/ nextId <= MaxId
       /\ guides' = update_one_upsert(guides, nextId, doc)
       /\ nextId' = IF matched = 0 THEN nextId + 1 ELSE nextId

handle_new_guide_in_channel(message) ==
    LET r == save_guide_from_message(message)
    IN /\ IF r.outcome = "saved" THEN Upserted(r.doc) ELSE UNCHANGED <<guides, nextId>>
       /\ Ran("handle_new_guide_in_channel", 0, InMessage(message, FALSE), r.outcome = "raised", <<>>)
       /\ UNCHANGED <<user_data, conv>>

\* The last handler registered: it gets a forwarded message only when neither
\* conversation took it as a text message. `if saved_title` is false for None
\* and for an empty title alike.
handle_forwarded_guide(u, message) ==
    LET r == save_guide_from_message(message)
    IN /\ message.text # None => (~InSearch(u) /\ ~InEdit(u))
       /\ IF r.outcome = "saved" THEN Upserted(r.doc) ELSE UNCHANGED <<guides, nextId>>
       /\ Ran("handle_forwarded_guide", u, InMessage(message, TRUE), r.outcome = "raised",
              IF r.outcome = "saved" /\ r.doc.title # <<>>
              THEN <<Sent("reply", Notice("saved", <<r.doc.title>>), NoMarkup)>>
              ELSE IF r.outcome # "raised"
              THEN <<Sent("reply", Notice("not_saved", <<>>), NoMarkup)>>
              ELSE <<>>)
       /\ UNCHANGED <<user_data, conv>>

\* ------------------------------------------------------------ error_handler
\* A call on the store raises while an update of user u is handled. No handler
\* wraps its calls on the store in try/except, and each of them makes these
\* calls before it writes to the session and before it sends anything, so the
\* handler ends there; the application passes the exception to error_handler,
\* which logs it.
error_handler(u) ==
    /\ Ran("error_handler", u, NoInput, TRUE, <<>>)
    /\ UNCHANGED <<guides, nextId, user_data, conv>>

\* ------------------------------------------------------ the whole program
Workers == {1, 2}
NoInsert == [pending |-> FALSE, doc |-> None]
NoGuides == [i \in {} |-> None]

InitSession(admins) ==
    /\ ADMIN_ID \in admins
    /\ user_data = [u \in Users |-> EmptyData]
    /\ conv = [u \in Users |-> [search |-> END, edit |-> END, merge |-> END]]
    /\ reply = <<>>
    /\ last = [op |-> "init", user |-> 0, input |-> NoInput, raised |-> FALSE]
    /\ inflight = [w \in Workers |-> NoInsert]

\* values of the ADMIN_ID environment variable: unset, or a user's id
AdminIds == {None} \cup {IntStr(u) : u \in Users}

\* the user who talks to the bot, and that user as ADMIN_ID
Sender == {1}
SenderIds == {IntStr(u) : u \in Sender}

Init ==
    /\ InitSession(SenderIds)
    /\ guides = NoGuides
    /\ nextId = 1

\* Payloads of the controls the bot renders. A navigation control names a page
\* of the catalog as it was when rendered (here: as it is, or one page more); the
\* other controls name only ids the store has assigned. The paginator renders
\* no control for a page below 0; that payload is here for the clamp alone.
PageData ==
    {mode \o P_page \o Colon \o IntStr(p) :
        mode \in Modes, p \in (-1)..Ceil(Cardinality(DOMAIN guides), GUIDES_PER_PAGE)}

\* the navigation payloads that name a page the catalog has
LivePageData ==
    {mode \o P_page \o Colon \o IntStr(p) :
        mode \in Modes, p \in 0..Max(0, Ceil(Cardinality(DOMAIN guides), GUIDES_PER_PAGE) - 1)}

IdData(prefix) == {prefix \o Colon \o IdStr(i) : i \in 1..(nextId - 1)}

ConfirmMergeData ==
    {D_confirm_merge \o Colon \o IdStr(i) \o Colon \o IdStr(j) :
        i \in 1..(nextId - 1), j \in 1..(nextId - 1)}

\* the commands, texts and control activations that users in U send
NextUser(U) ==
    \/ \E u \in U : start_command(u)
    \/ \E u \in U : guides_command(u)
    \/ \E u \in U : delete_command(u)
    \/ \E u \in U : edit_command(u)
    \/ \E u \in U, typed \in BOOLEAN : merge_command(u, typed)
    \/ \E u \in U : recent_users_command(u)
    \/ \E u \in U : search_start(u)
    \/ \E u \in U, q \in TypedTexts : perform_search(u, q, FALSE)
    \/ \E u \in U, q \in ShortTexts : perform_search(u, q, TRUE)
    \/ \E u \in U, data \in IdData(M_edit) : edit_guide_start(u, data)
    \/ \E u \in U, t \in ShortTexts, f \in BOOLEAN : update_guide_title(u, t, f)
    \/ \E u \in U : cancel_conversation(u)
    \/ \E u \in U : cancel_unhandled(u)
    \/ \E u \in U, data \in {D_noop} \cup IdData(M_edit) : button_callback_noop(u, data)
    \/ \E u \in U, data \in LivePageData : button_callback_page(u, data)
    \/ \E u \in U, data \in IdData(M_delete) : button_callback_delete(u, data)
    \/ \E u \in U, data \in IdData(D_confirm_delete) : button_callback_confirm_delete(u, data)
    \/ \E u \in U : button_callback_cancel_delete(u, D_cancel_delete)
    \/ \E u \in U, data \in IdData(M_merge) : button_callback_merge(u, data)
    \/ \E u \in U, data \in IdData(M_merge_second) : button_callback_merge_second(u, data)
    \/ \E u \in U, data \in ConfirmMergeData : button_callback_confirm_merge(u, data)
    \/ \E u \in U : button_callback_cancel_merge(u, D_cancel_merge)
    \/ \E u \in U : button_callback_show_guides(u, D_show_guides_start)
    \/ \E u \in U : error_handler(u)

\* the posts of the channel and the messages that users in U forward
NextSubmit(U) ==
    \/ \E message \in ChannelPosts : handle_new_guide_in_channel(message)
    \/ \E u \in U : \E message \in ForwardedBy(u) : handle_forwarded_guide(u, message)

\* The program with its administrator talking to it, from an empty catalog.
Next == NextUser(Sender) \/ NextSubmit(Sender)

Spec == Init /\ [][Next]_vars

\* ------------------------------------------- two instances saving at once
\* The update_one of save_guide_from_message as the server runs it when two
\* handler instances call it at the same time: the filter is evaluated, and a
\* document it matched is updated at once; when it matched none, the insert is
\* a later step. Nothing in the code creates a unique index on
\* (original_chat_id, original_message_id), so the insert is never refused.
update_one_filter(w, message) ==
    LET r == save_guide_from_message(message)
        matched == upsert_match(guides, r.doc.original_chat_id, r.doc.original_message_id)
    IN /\ ~inflight[w].pending
       /\ r.outcome = "saved"
       /\ IF matched # 0
          THEN /\ guides' = upsert_apply(guides, nextId, matched, r.doc)
               /\ UNCHANGED inflight
          ELSE /\ inflight' = [inflight EXCEPT ![w] = [pending |-> TRUE, doc |-> r.doc]]
               /\ UNCHANGED guides
       /\ last' = [op |-> "update_one_filter", user |-> 0,
                   input |-> InMessage(message, FALSE), raised |-> FALSE]
       /\ UNCHANGED <<ADMIN_ID, nextId, user_data, conv, reply>>

update_one_insert(w) ==
    /\ inflight[w].pending
    /\ nextId <= MaxId
    /\ guides' = upsert_apply(guides, nextId, 0, inflight[w].doc)
    /\ nextId' = nextId + 1
    /\ inflight' = [inflight EXCEPT ![w] = NoInsert]
    /\ last' = [op |-> "update_one_insert", user |-> 0,
                input |-> NoInput, raised |-> FALSE]
    /\ UNCHANGED <<ADMIN_ID, user_data, conv, reply>>

NextConc ==
    \/ \E w \in Workers, message \in ChannelPosts : update_one_filter(w, message)
    \/ \E w \in Workers : update_one_insert(w)

SpecConc == Init /\ [][NextConc]_vars

\* ------------------------------------------- someone else talking to the bot
\* The program with a user talking to it whom ADMIN_ID does not name (it names
\* someone else, or is unset), over a catalog of up to MaxId guides posted in
\* the channel.
ChannelCatalog(n) ==
    [i \in 1..n |->
        [title |-> <<"a">>, original_message_id |-> i, original_chat_id |-> CHANNEL_ID]]

InitGuest ==
    /\ InitSession(AdminIds \ SenderIds)
    /\ \E n \in 0..MaxId :
           /\ guides = ChannelCatalog(n)
           /\ nextId = n + 1

NextGuest == NextUser(Sender)

SpecGuest == InitGuest /\ [][NextGuest]_vars

\* ------------------------------------------------ paging through a catalog
\* A catalog of n guides posted in the channel with message ids 1..n; when
\* t > 0, guide t + 1 is instead a forward from the other channel whose
\* original message id is t, the same as guide t's.
PageCatalog(n, t) ==
    [i \in 1..n |->
        IF t > 0 /\ i = t + 1
        THEN [title |-> <<"b">>, original_message_id |-> t, original_chat_id |-> OTHER_CHANNEL]
        ELSE [title |-> <<"a">>, original_message_id |-> i, original_chat_id |-> CHANNEL_ID]]

InitPage ==
    /\ InitSession(AdminIds)
    /\ \E n \in 0..MaxCatalog : \E t \in 0..Max(n - 1, 0) :
           /\ guides = PageCatalog(n, t)
           /\ nextId = n + 1

NextPage ==
    \/ \E u \in Sender : guides_command(u)
    \/ \E u \in Sender : delete_command(u)
    \/ \E u \in Sender : edit_command(u)
    \/ \E u \in Sender, typed \in BOOLEAN : merge_command(u, typed)
    \/ \E u \in Sender, data \in PageData : button_callback_page(u, data)
    \/ \E u \in Sender : button_callback_show_guides(u, D_show_guides_start)

SpecPage == InitPage /\ [][NextPage]_vars

\* ------------------------------------------------------- two users at once
\* The administrator and another user both talking to the bot, over a catalog
\* of one guide; updates are handled one at a time, in any interleaving.
InitTwo ==
    /\ InitSession(SenderIds)
    /\ guides = ChannelCatalog(1)
    /\ nextId = 2

NextTwo == NextUser(Users)

SpecTwo == InitTwo /\ [][NextTwo]_vars

\* ------------------------------------------------- texts with blank parts
\* Texts of exactly 50 characters: every start of up to two characters out of
\* a blank, a line break and a letter, filled up with one letter; and two
\* texts that hold nothing but blanks, or nothing but line breaks.
Starts ==
    {<<>>} \cup {<<c>> : c \in {" ", "\n", "a"}}
           \cup {<<c, d>> : c, d \in {" ", "\n", "a"}}

TitleTexts ==
    {st \o Fill(MIN_GUIDE_LEN - Len(st)) : st \in Starts}
    \cup {[i \in 1..MIN_GUIDE_LEN |-> c] : c \in {" ", "\n"}}

\* posts of the archived channel that carry these texts
TitlePosts ==
    {Message([text |-> t, caption |-> None], CHANNEL_ID, m, NoOrigin) :
        t \in TitleTexts, m \in Ids}

\* the same posts, forwarded to the bot by user u
TitleForwards(u) ==
    {Message([text |-> t, caption |-> None], u, 1,
             [kind |-> "channel", chat_id |-> CHANNEL_ID, message_id |-> m]) :
        t \in TitleTexts, m \in Ids}

NextTitle ==
    \/ \E message \in TitlePosts : handle_new_guide_in_channel(message)
    \/ \E u \in Sender : \E message \in TitleForwards(u) : handle_forwarded_guide(u, message)

\* The program receiving such posts and forwards, from an empty catalog.
SpecTitle == Init /\ [][NextTitle]_vars

\* ------------------------------------------------ activating the controls
\* The administrator over a catalog of more than one page, activating the
\* controls of the pages rendered: every payload is offered to every handler of
\* callback queries, and the handlers' patterns and the if/elif chain decide
\* which one runs.
NavData ==
    PageData \cup {mode \o Colon \o IdStr(1) : mode \in ActionModes}

InitNav ==
    /\ InitSession(SenderIds)
    /\ \E n \in (GUIDES_PER_PAGE + 1)..MaxCatalog :
           /\ guides = ChannelCatalog(n)
           /\ nextId = n + 1

NextNav ==
    \/ \E u \in Sender : guides_command(u)
    \/ \E u \in Sender : delete_command(u)
    \/ \E u \in Sender : edit_command(u)
    \/ \E u \in Sender, typed \in BOOLEAN : merge_command(u, typed)
    \/ \E u \in Sender : cancel_conversation(u)
    \/ \E u \in Sender, data \in NavData : edit_guide_start(u, data)
    \/ \E u \in Sender, data \in NavData : button_callback_noop(u, data)
    \/ \E u \in Sender, data \in NavData : button_callback_page(u, data)
    \/ \E u \in Sender, data \in NavData : button_callback_delete(u, data)
    \/ \E u \in Sender, data \in NavData : button_callback_merge(u, data)
    \/ \E u \in Sender, data \in NavData : button_callback_merge_second(u, data)

SpecNav == InitNav /\ [][NextNav]_vars

\* ================================================================= claims
SubmissionOps == {"handle_new_guide_in_channel", "handle_forwarded_guide"}

\* the title the claims expect of a text: its first line, after trimming
ExpectedTitle(text) ==
    IF text = TextA THEN <<"a">> ELSE IF text = TextB THEN <<"b">> ELSE None

BodyText(message) == IF message.text # None THEN message.text ELSE message.caption

\* a message the claims call qualifying: at least 50 characters of text or caption
Qualifies(message) == Len(BodyText(message)) >= 50

\* the pair the claims expect a message to be keyed by
ExpectedKey(message) ==
    IF message.forward_origin.kind = "none"
    THEN <<message.chat_id, message.message_id>>
    ELSE <<message.forward_origin.chat_id, message.forward_origin.message_id>>

OwnKey(message) == <<message.chat_id, message.message_id>>

RecordsAt(g, key) == {i \in DOMAIN g : Identity(g[i]) = key}

\* every record but those in S is what it was
OthersUnchanged(S) ==
    \A j \in DOMAIN guides \ S : j \in DOMAIN guides' /\ guides'[j] = guides[j]

\* C1: a qualifying submission whose canonical identity already has a record adds
\* no record: afterwards the catalog holds exactly one record for that pair, it
\* is the record that was there, and its title is the one derived from this
\* submission; no other record changes.
C1_ResubmissionOverwrites ==
    [][LET message == last'.input.message
           key == ExpectedKey(message)
       IN (/\ last'.op \in SubmissionOps
           /\ Qualifies(message)
           /\ RecordsAt(guides, key) # {})
          => /\ DOMAIN guides' = DOMAIN guides
             /\ RecordsAt(guides', key) = RecordsAt(guides, key)
             /\ Cardinality(RecordsAt(guides', key)) = 1
             /\ \A i \in RecordsAt(guides', key) :
                    guides'[i].title = ExpectedTitle(BodyText(message))
             /\ OthersUnchanged(RecordsAt(guides, key))]_vars

\* C1 witness: a forward of a channel post was saved with title "a" over record
\* 1, which was there before record 2 was added; both records are still there.
C1_Witness ==
    /\ last.op = "handle_forwarded_guide"
    /\ Heading(reply) = "saved"
    /\ reply[1].text.items[1].title = <<"a">>
    /\ DOMAIN guides = {1, 2}
    /\ guides[1].title = <<"a">>
    /\ guides[2].title = <<"b">>

\* C2: no two records of the catalog have the same (original_chat_id,
\* original_message_id) pair, however the upserts of two handlers interleave.
C2_IdentityUnique ==
    \A i \in DOMAIN guides : \A j \in DOMAIN guides :
        Identity(guides[i]) = Identity(guides[j]) => i = j

\* C3: a qualifying message forwarded from a channel is saved under the pair its
\* provenance names, and the records under the message's own pair stay as they
\* were; a qualifying message without provenance is saved under its own pair; a
\* provenance that names no chat and message saves nothing under any pair.
C3_KeyedByProvenance ==
    [][LET message == last'.input.message
           origin == message.forward_origin
           own == OwnKey(message)
           quoted == <<origin.chat_id, origin.message_id>>
       IN (last'.op \in SubmissionOps /\ Qualifies(message))
          => /\ origin.kind = "channel"
                => /\ \E i \in RecordsAt(guides', quoted) :
                          guides'[i].title = ExpectedTitle(BodyText(message))
                   /\ own # quoted
                      => /\ RecordsAt(guides', own) = RecordsAt(guides, own)
                         /\ \A i \in RecordsAt(guides, own) : guides'[i] = guides[i]
             /\ origin.kind = "none"
                => \E i \in RecordsAt(guides', own) :
                       guides'[i].title = ExpectedTitle(BodyText(message))
             /\ origin.kind = "user" => guides' = guides]_vars

\* C3 witness: the user forwarded a channel post; it was saved under the post's
\* pair and the catalog holds nothing under the forwarding message's own pair.
C3_Witness ==
    /\ last.op = "handle_forwarded_guide"
    /\ last.input.message.forward_origin.kind = "channel"
    /\ Heading(reply) = "saved"
    /\ RecordsAt(guides, <<last.input.message.forward_origin.chat_id,
                           last.input.message.forward_origin.message_id>>) # {}
    /\ RecordsAt(guides, OwnKey(last.input.message)) = {}

\* the yes control of a confirmation, as rendered in the message just sent
YesData == reply[1].markup.rows[1][1].callback_data

\* C4: when the administrator has picked X, then Y, both there, and activates the
\* yes control of the confirmation just rendered, the catalog keeps X, loses Y
\* and has one record less.
C4_MergeAbsorbs ==
    [][\A X \in Ids : \A Y \in Ids \ {X} :
        (/\ last.op = "button_callback_merge_second"
         /\ last'.op = "button_callback_confirm_merge"
         /\ last'.user = last.user
         /\ {X, Y} \subseteq DOMAIN guides
         /\ user_data[last.user].first_guide_id = IdStr(X)
         /\ last.input.data = M_merge_second \o Colon \o IdStr(Y)
         /\ Heading(reply) = "confirm_merge"
         /\ last'.input.data = YesData)
        => /\ X \in DOMAIN guides'
           /\ Y \notin DOMAIN guides'
           /\ Cardinality(DOMAIN guides') = Cardinality(DOMAIN guides) - 1]_vars

\* the handlers the claims reserve for the administrator
AdminOps ==
    {"delete_command", "edit_command", "merge_command", "recent_users_command",
     "edit_guide_start", "button_callback_delete", "button_callback_confirm_delete",
     "button_callback_merge", "button_callback_merge_second",
     "button_callback_confirm_merge"}

Idle(c) == c.search = END /\ c.edit = END /\ c.merge = END

\* C5: a handler reserved for the administrator, run for a user ADMIN_ID does not
\* name (or with ADMIN_ID unset), leaves the catalog as it was, stores nothing
\* in that user's session and does not take an idle user out of idle.
C5_AdminOnly ==
    [][(/\ last'.op \in AdminOps
        /\ (ADMIN_ID = None \/ ADMIN_ID # IntStr(last'.user)))
       => /\ guides' = guides
          /\ user_data'[last'.user] \in {user_data[last'.user], EmptyData}
          /\ Idle(conv[last'.user]) => Idle(conv'[last'.user])]_vars

\* C6: the delete command of a user ADMIN_ID does not name (or with ADMIN_ID
\* unset) sends that user nothing, so neither a page in delete mode nor a
\* confirmation, and leaves every record as it was.
C6_DeleteCommandDenied ==
    [][(/\ last'.op = "delete_command"
        /\ (ADMIN_ID = None \/ ADMIN_ID # IntStr(last'.user)))
       => /\ reply' = <<>>
          /\ guides' = guides]_vars

\* C6 witness: such a user has sent the delete command over a catalog that has
\* guides, and was sent nothing.
C6_Witness ==
    /\ last.op = "delete_command"
    /\ ADMIN_ID # IntStr(last.user)
    /\ DOMAIN guides # {}
    /\ reply = <<>>

\* C7: when the administrator has activated delete-select on a record X that is
\* there, and activates the yes control of the confirmation just rendered, the
\* catalog has one record less, X is gone, every other record is as it was,
\* and the message says the deletion succeeded.
C7_ConfirmedDelete ==
    [][\A X \in Ids :
        (/\ last.op = "button_callback_delete"
         /\ last'.op = "button_callback_confirm_delete"
         /\ last'.user = last.user
         /\ is_admin(last.user)
         /\ X \in DOMAIN guides
         /\ last.input.data = M_delete \o Colon \o IdStr(X)
         /\ last'.input.data = YesData)
        => /\ Cardinality(DOMAIN guides') = Cardinality(DOMAIN guides) - 1
           /\ X \notin DOMAIN guides'
           /\ OthersUnchanged({X})
           /\ Heading(reply') = "deleted"]_vars

\* C7 witness: a confirmed deletion has removed record 1 of two and reported
\* success; record 2 is still there.
C7_Witness ==
    /\ last.op = "button_callback_confirm_delete"
    /\ last.input.data = D_confirm_delete \o Colon \o IdStr(1)
    /\ Heading(reply) = "deleted"
    /\ DOMAIN guides = {2}
    /\ is_admin(last.user)

\* the step of a workflow that works on record X (X, Y for a merge confirmation)
WorksOn(X) ==
    \/ /\ last'.op \in {"button_callback_delete", "button_callback_confirm_delete",
                        "button_callback_merge", "button_callback_merge_second"}
       /\ \E prefix \in {M_delete, D_confirm_delete, M_merge, M_merge_second} :
              last'.input.data = prefix \o Colon \o IdStr(X)
    \/ /\ last'.op = "update_guide_title"
       /\ user_data[last'.user].guide_to_edit = IdStr(X)
    \/ /\ last'.op = "button_callback_confirm_merge"
       /\ \E Y \in Ids :
              \/ last'.input.data = D_confirm_merge \o Colon \o IdStr(X) \o Colon \o IdStr(Y)
              \/ last'.input.data = D_confirm_merge \o Colon \o IdStr(Y) \o Colon \o IdStr(X)

\* C8: a step of the edit, delete or merge workflow that works on a record that
\* was selected and has since been deleted says the record was not found,
\* does not raise, and leaves the user's edit workflow idle.
C8_StaleSelectionReported ==
    [][\A X \in Ids :
        (/\ X < nextId
         /\ X \notin DOMAIN guides
         /\ WorksOn(X))
        => /\ Heading(reply') = "not_found"
           /\ ~last'.raised
           /\ conv'[last'.user].edit = END]_vars

\* a user in a workflow: awaiting a query, awaiting a title, or with a first
\* merge record picked (a pending confirmation has one picked, too)
NonIdle(u) == InSearch(u) \/ InEdit(u) \/ user_data[u].first_guide_id # None

\* C9: the cancel command of a user in a workflow sends the cancellation notice,
\* leaves none of the user's workflows awaiting anything and empties the
\* user's session.
C9_CancelReturnsToIdle ==
    [][(/\ last'.op \in {"cancel_conversation", "cancel_unhandled"}
        /\ NonIdle(last'.user))
       => /\ Heading(reply') = "cancelled"
          /\ Idle(conv'[last'.user])
          /\ user_data'[last'.user] = EmptyData]_vars

\* the records a rendered list shows, by the links of its entries
Shown(msgs) == {msgs[1].text.items[k].link : k \in 1..Len(msgs[1].text.items)}

ViewPage(p) == M_view \o P_page \o Colon \o IntStr(p)

LastPage == Ceil(Cardinality(DOMAIN guides), GUIDES_PER_PAGE) - 1

\* C10: two different pages of the list, rendered one after the other over the
\* same catalog, show no record in common.
C10_PagesDisjoint ==
    [][\A p \in 0..LastPage : \A q \in (0..LastPage) \ {p} :
        (/\ last.op = "button_callback_page"
         /\ last'.op = "button_callback_page"
         /\ guides' = guides
         /\ last.input.data = ViewPage(p)
         /\ last'.input.data = ViewPage(q))
        => Shown(reply) \cap Shown(reply') = {}]_vars

\* ------------------------------------------------------- rendered pages
\* the handlers that send or edit in a page of the catalog
PageOps ==
    {"guides_command", "delete_command", "edit_command", "merge_command",
     "button_callback_page", "button_callback_show_guides"}

\* a page was rendered by the last handler
PageRendered == last.op \in PageOps /\ ~last.raised /\ reply # <<>>

PageRequests ==
    {[mode |-> m, page |-> p] :
        m \in Modes, p \in (-1)..((MaxCatalog \div GUIDES_PER_PAGE) + 1)}

\* the page index and the mode the last handler asked the paginator for
Requested ==
    IF last.op = "button_callback_page"
    THEN CHOOSE r \in PageRequests :
             last.input.data = r.mode \o P_page \o Colon \o IntStr(r.page)
    ELSE [mode |-> IF last.op = "delete_command" THEN M_delete
                   ELSE IF last.op = "edit_command" THEN M_edit
                   ELSE IF last.op = "merge_command" THEN M_merge
                   ELSE M_view,
          page |-> 0]

CatalogSize == Cardinality(DOMAIN guides)
TotalPages == (CatalogSize + GUIDES_PER_PAGE - 1) \div GUIDES_PER_PAGE

\* the requested index brought into 0..TotalPages - 1
ClampedPage ==
    IF Requested.page < 0 THEN 0
    ELSE IF Requested.page > TotalPages - 1 THEN TotalPages - 1
    ELSE Requested.page

\* every control of the message sent
ControlsOf(msg) ==
    UNION {{msg.markup.rows[i][k] : k \in 1..Len(msg.markup.rows[i])} :
              i \in 1..Len(msg.markup.rows)}

HasControl(msg, kind) == \E b \in ControlsOf(msg) : b.kind = kind

PageLabel(p, total) == IntStr(p + 1) \o <<"/">> \o IntStr(total)

\* C11: a page rendered over a catalog of n >= 1 guides has a previous control
\* exactly when the clamped index is above 0, a next control exactly when it is
\* below total_pages - 1, exactly one inert control, labelled X/Y, and
\* min(7, n - 7 * index) entries.
C11_NavigationControls ==
    (PageRendered /\ CatalogSize >= 1)
    => /\ HasControl(reply[1], "prev") <=> ClampedPage > 0
       /\ HasControl(reply[1], "next") <=> ClampedPage < TotalPages - 1
       /\ Cardinality({b \in ControlsOf(reply[1]) : b.callback_data = D_noop}) = 1
       /\ \A b \in ControlsOf(reply[1]) :
              b.callback_data = D_noop => b.text = PageLabel(ClampedPage, TotalPages)
       /\ Len(reply[1].text.items)
              = Min(GUIDES_PER_PAGE, CatalogSize - GUIDES_PER_PAGE * ClampedPage)

\* C11 witness: page 1 of 10 guides in delete mode shows 3 entries, with a
\* previous control and no next control.
C11_Witness ==
    /\ PageRendered
    /\ CatalogSize = 10
    /\ last.input.data = M_delete \o P_page \o Colon \o IntStr(1)
    /\ Len(reply[1].text.items) = 3
    /\ HasControl(reply[1], "prev")
    /\ ~HasControl(reply[1], "next")

\* C12: the page rendered is the one at the requested index clamped into
\* 0..total_pages - 1, with total_pages = ceil(count / 7); over an empty catalog
\* the message is the no-entries text with no controls, in every mode.
C12_ClampedPage ==
    PageRendered
    => IF CatalogSize = 0
       THEN /\ Heading(reply) = "no_guides"
            /\ ~reply[1].markup.has
            /\ reply[1].markup.rows = <<>>
       ELSE /\ TotalPages * GUIDES_PER_PAGE >= CatalogSize
            /\ (TotalPages - 1) * GUIDES_PER_PAGE < CatalogSize
            /\ \E b \in ControlsOf(reply[1]) : b.text = PageLabel(ClampedPage, TotalPages)
            /\ HasControl(reply[1], "prev") <=> ClampedPage > 0
            /\ Len(reply[1].text.items)
                   = Min(GUIDES_PER_PAGE, CatalogSize - GUIDES_PER_PAGE * ClampedPage)

\* C12 witness: over 10 guides a payload for page -1 was rendered as page 1/2.
C12_Witness ==
    /\ PageRendered
    /\ CatalogSize = 10
    /\ last.input.data = M_edit \o P_page \o Colon \o IntStr(-1)
    /\ \E b \in ControlsOf(reply[1]) : b.text = PageLabel(0, 2)

\* ------------------------------------------------- navigation controls
\* the message on screen is a page of the catalog with its controls
NavShown ==
    /\ ~last.raised
    /\ reply # <<>>
    /\ last.op \in PageOps \cup {"button_callback_merge"}
    /\ reply[1].markup.has

\* the mode and the page of the message on screen
ShownMode == IF last.op = "button_callback_merge" THEN M_merge_second ELSE Requested.mode
ShownPage == IF last.op = "button_callback_merge" THEN 0 ELSE ClampedPage

ModeHeading(mode) ==
    IF mode = M_view THEN "list"
    ELSE IF mode = M_delete THEN "choose_delete"
    ELSE IF mode = M_edit THEN "choose_edit"
    ELSE IF mode = M_merge THEN "choose_first"
    ELSE "choose_second"

\* the page a control of the given kind leads to
NavTarget(kind) == IF kind = "prev" THEN ShownPage - 1 ELSE ShownPage + 1

\* C13: the update that carries the payload of a previous or next control of the
\* page on screen is handled by the navigation branch of button_callback and by
\* no selecting handler, and what it renders is the catalog in the mode of the
\* page on screen, at the page before or after it.
C13_NavigationRoundTrip ==
    [][NavShown
       => \A b \in ControlsOf(reply[1]) :
              (b.kind \in {"prev", "next"} /\ last'.input.data = b.callback_data)
              => /\ last'.op = "button_callback_page"
                 /\ ~last'.raised
                 /\ b.callback_data
                        = ShownMode \o P_page \o Colon \o IntStr(NavTarget(b.kind))
                 /\ Requested' = [mode |-> ShownMode, page |-> NavTarget(b.kind)]
                 /\ Heading(reply') = ModeHeading(ShownMode)
                 /\ \E c \in ControlsOf(reply'[1]) :
                        c.text = PageLabel(NavTarget(b.kind), TotalPages)]_vars

\* C13 witness: with a first guide picked, the next control of the pick-second
\* page was activated and page 2/2 is on screen in the same mode, with a
\* previous control that leads back.
C13_Witness ==
    /\ last.op = "button_callback_page"
    /\ user_data[1].first_guide_id # None
    /\ last.input.data = M_merge_second \o P_page \o Colon \o IntStr(1)
    /\ Heading(reply) = "choose_second"
    /\ \E b \in ControlsOf(reply[1]) :
           b.kind = "prev" /\ b.callback_data = M_merge_second \o P_page \o Colon \o IntStr(0)

\* ------------------------------------------------- the length threshold
\* C14: a submission without text and caption, or with fewer than 50 characters,
\* leaves the catalog as it was and does not raise; forwarded, it is answered
\* with the rejection notice alone, and as a channel post with nothing. A text of
\* exactly 50 characters that has an identity to be keyed by is stored under it
\* and, forwarded, acknowledged with its title.
C14_ShortRejected ==
    [][LET message == last'.input.message
           body == BodyText(message)
       IN last'.op \in SubmissionOps
          => /\ (body = None \/ Len(body) < 50)
                => /\ guides' = guides
                   /\ ~last'.raised
                   /\ last'.op = "handle_forwarded_guide"
                      => (Len(reply') = 1 /\ Heading(reply') = "not_saved")
                   /\ last'.op = "handle_new_guide_in_channel" => reply' = <<>>
             /\ (/\ message.text # None
                 /\ Len(message.text) = 50
                 /\ message.forward_origin.kind # "user")
                => /\ ~last'.raised
                   /\ \E i \in RecordsAt(guides', ExpectedKey(message)) :
                          guides'[i].title = ExpectedTitle(message.text)
                   /\ last'.op = "handle_forwarded_guide" => Heading(reply') = "saved"]_vars

\* C14 witness: over a catalog that holds a guide, a forwarded text of 49
\* characters was answered with the rejection notice.
C14_Witness ==
    /\ last.op = "handle_forwarded_guide"
    /\ last.input.message.text = TextShort
    /\ Len(TextShort) = 49
    /\ Heading(reply) = "not_saved"
    /\ guides # NoGuides

\* ------------------------------------------------------ forwarded messages
\* C15: every forwarded message a user sends is handled by
\* handle_forwarded_guide and answered with the saved title or with the
\* rejection notice, whatever the user's workflows are waiting for; no search
\* and no title update takes it.
C15_ForwardsAlwaysSaved ==
    [][last'.input.forwarded
       => /\ last'.op = "handle_forwarded_guide"
          /\ ~last'.raised
          /\ Heading(reply') \in {"saved", "not_saved"}]_vars

\* ------------------------------------------------- deleting what is gone
\* C16: confirm-delete for an id the catalog does not hold reports not found,
\* leaves the catalog as it was and does not raise.
C16_DeleteMissingReported ==
    [][\A i \in Ids :
           (/\ last'.op = "button_callback_confirm_delete"
            /\ last'.input.data = D_confirm_delete \o Colon \o IdStr(i)
            /\ i \notin DOMAIN guides)
           => /\ ~last'.raised
              /\ Len(reply') = 1
              /\ Heading(reply') = "not_found"
              /\ guides' = guides]_vars

\* C16 witness: the confirmation for guide 1 was activated after guide 1 was
\* deleted, with another guide still in the catalog.
C16_Witness ==
    /\ last.op = "button_callback_confirm_delete"
    /\ last.input.data = D_confirm_delete \o Colon \o IdStr(1)
    /\ Heading(reply) = "not_found"
    /\ DOMAIN guides = {2}

\* ------------------------------------------------------ one session each
\* a user can list the catalog, turn its pages and search it: the handlers are
\* enabled, and every navigation payload goes to the navigation branch
CanBrowse(b) ==
    /\ ENABLED guides_command(b)
    /\ ENABLED button_callback_show_guides(b, D_show_guides_start)
    /\ \A data \in LivePageData : Routed(b, data, "page")
    /\ IF InSearch(b)
       THEN \A q \in ShortTexts : ENABLED perform_search(b, q, FALSE)
       ELSE ENABLED search_start(b)

BrowseHeadings ==
    {"list", "choose_delete", "choose_edit", "choose_first", "choose_second", "no_guides"}

\* C17: a step handled for one user leaves every other user's conversation
\* states and session data as they were; whenever a user is in a workflow every
\* other user can list, page through and search the catalog, and a page
\* requested by any user is rendered.
C17_SessionsPerUser ==
    /\ [](\A a \in Users : NonIdle(a) => \A b \in Users \ {a} : CanBrowse(b))
    /\ [][(\A b \in Users \ {last'.user} :
                user_data'[b] = user_data[b] /\ conv'[b] = conv[b])
           /\ (last'.op \in {"guides_command", "button_callback_page",
                             "button_callback_show_guides"}
               => (~last'.raised /\ Heading(reply') \in BrowseHeadings))]_vars

\* C17 witness: user 2 got a page of the catalog while user 1 was waiting for a
\* new title with a first merge record picked, and user 2's session is empty.
C17_Witness ==
    /\ InEdit(1)
    /\ user_data[1].first_guide_id # None
    /\ last.user = 2
    /\ last.op = "guides_command"
    /\ Heading(reply) = "list"
    /\ user_data[2] = EmptyData
    /\ Idle(conv[2])

\* ------------------------------------------------ the stashed first record
\* the steps that belong to the merge itself: picking a first record again,
\* confirming and cancelling
MergeOps ==
    {"button_callback_merge", "button_callback_confirm_merge", "button_callback_cancel_merge"}

\* C18: once a first merge record is picked, first_guide_id and
\* first_guide_title stay in the user's session as they are through every step
\* that is not a step of the merge itself.
C18_FirstPickKept ==
    [][\A u \in Users :
           (user_data[u].first_guide_id # None /\ last'.op \notin MergeOps)
           => /\ user_data'[u].first_guide_id = user_data[u].first_guide_id
              /\ user_data'[u].first_guide_title = user_data[u].first_guide_title]_vars

\* ------------------------------------------------- the merge confirmation
\* C19: merge-select-second with no first record in the session is answered
\* with the error notice alone. A merge confirmation is rendered only by
\* merge-select-second for a user whose session holds a first pick; it names
\* the title stashed with that pick and the title of the record just selected,
\* and its confirm control carries the stashed id and the selected id. A first
\* pick enters a session only by that user's merge-select, as the id and the
\* title of the record selected.
C19_ConfirmAfterBothPicks ==
    [][\A u \in Users :
           /\ (/\ last'.user = u
               /\ last'.op = "button_callback_merge_second"
               /\ user_data[u].first_guide_id = None)
              => (Len(reply') = 1 /\ Heading(reply') = "merge_error")
           /\ (last'.user = u /\ Heading(reply') = "confirm_merge")
              => (/\ last'.op = "button_callback_merge_second"
                  /\ user_data[u].first_guide_id # None
                  /\ \E j \in DOMAIN guides :
                         /\ last'.input.data = M_merge_second \o Colon \o IdStr(j)
                         /\ reply'[1].text.items
                                = <<[title |-> user_data[u].first_guide_title, link |-> None],
                                    [title |-> guides[j].title, link |-> None]>>
                         /\ reply'[1].markup.rows[1][1].callback_data
                                = D_confirm_merge \o Colon \o user_data[u].first_guide_id
                                      \o Colon \o IdStr(j))
           /\ (/\ user_data'[u].first_guide_id # None
               /\ user_data'[u].first_guide_id # user_data[u].first_guide_id)
              => (/\ last'.user = u
                  /\ last'.op = "button_callback_merge"
                  /\ \E i \in DOMAIN guides :
                         /\ last'.input.data = M_merge \o Colon \o IdStr(i)
                         /\ user_data'[u].first_guide_id = IdStr(i)
                         /\ user_data'[u].first_guide_title = guides[i].title)]_vars

\* C19 witness: after guide 1 was picked first, merge-select-second on guide 2
\* rendered a confirmation whose confirm control carries confirm_merge:1:2.
C19_Witness ==
    /\ last.op = "button_callback_merge_second"
    /\ Heading(reply) = "confirm_merge"
    /\ user_data[1].first_guide_id = IdStr(1)
    /\ YesData = D_confirm_merge \o Colon \o IdStr(1) \o Colon \o IdStr(2)
    /\ Len(reply[1].text.items) = 2

\* ------------------------------------------------------ a failing store
\* C20: when a call on the store raises in a handler, the user whose update it
\* was gets a failure notice, and the catalog and every other user's session
\* are as they were.
C20_StoreFailureNoticed ==
    [][last'.op = "error_handler"
       => /\ Len(reply') = 1
          /\ Heading(reply') = "failure"
          /\ guides' = guides
          /\ \A b \in Users \ {last'.user} :
                 user_data'[b] = user_data[b] /\ conv'[b] = conv[b]]_vars

\* ------------------------------------------------------ a completed edit
\* C21: the step that completes an edit leaves the set of ids as it was, every
\* record but the one stashed at edit-select as it was, and of that record
\* changes the title alone, to the text sent. A qualifying submission whose
\* identity has a record leaves the set of ids and every record's identity as
\* they were.
C21_EditChangesTitleOnly ==
    [][/\ (last'.op = "update_guide_title" /\ ~last'.raised)
          => (/\ DOMAIN guides' = DOMAIN guides
              /\ \A i \in DOMAIN guides :
                     IF user_data[last'.user].guide_to_edit = IdStr(i)
                     THEN guides'[i] = [guides[i] EXCEPT !.title = last'.input.text]
                     ELSE guides'[i] = guides[i])
       /\ (/\ last'.op \in SubmissionOps
           /\ Qualifies(last'.input.message)
           /\ last'.input.message.forward_origin.kind # "user"
           /\ RecordsAt(guides, ExpectedKey(last'.input.message)) # {})
          => (/\ DOMAIN guides' = DOMAIN guides
              /\ \A i \in DOMAIN guides : Identity(guides'[i]) = Identity(guides[i]))]_vars

\* C21 witness: of two guides, guide 1 was given the title sent and keeps its
\* identity, and guide 2 has the title it was posted with.
C21_Witness ==
    /\ last.op = "update_guide_title"
    /\ Heading(reply) = "title_updated"
    /\ DOMAIN guides = {1, 2}
    /\ last.input.text = <<"b">>
    /\ guides[1].title = <<"b">>
    /\ guides[2].title = <<"a">>
    /\ Identity(guides[1]) # Identity(guides[2])

\* ------------------------------------------------------- the stored title
\* the label the claims expect in place of an empty first line
FallbackLabel == <<"G", "u", "i", "d", "e">>

\* C22: an accepted submission leaves a record under its identity whose title
\* is the first line of the trimmed text or, when that line is empty, the
\* fallback label; the title is never empty.
C22_TitleNeverEmpty ==
    [][LET message == last'.input.message
           first == SplitFirst(Strip(BodyText(message)), <<"\n">>)
       IN (/\ last'.op \in SubmissionOps
           /\ Qualifies(message)
           /\ message.forward_origin.kind # "user")
          => \E i \in RecordsAt(guides', ExpectedKey(message)) :
                 /\ guides'[i].title # <<>>
                 /\ guides'[i].title = IF first = <<>> THEN FallbackLabel ELSE first]_vars

\* ---------------------------------------------------- what changes the catalog
\* the handlers that list, navigate, search, select and cancel
ReadingOps ==
    {"guides_command", "button_callback_page", "button_callback_show_guides",
     "button_callback_noop", "search_start", "perform_search",
     "button_callback_delete", "button_callback_cancel_delete", "edit_guide_start",
     "button_callback_merge", "button_callback_merge_second",
     "button_callback_cancel_merge", "cancel_conversation", "cancel_unhandled"}

\* the handlers that may change it
WritingOps ==
    SubmissionOps \cup {"update_guide_title", "button_callback_confirm_delete",
                        "button_callback_confirm_merge"}

\* C23: listing, navigation, the inert control, search, the selecting steps, the
\* two 'no' controls and the cancel command leave the catalog (ids, identities,
\* titles) as it was; a step that changes it is a qualifying submission, a
\* completed edit, a confirmed delete or a confirmed merge.
C23_OnlyWritersChange ==
    [][/\ (last'.op \in ReadingOps => guides' = guides)
       /\ (guides' # guides
           => (/\ last'.op \in WritingOps
               /\ last'.op \in SubmissionOps => Qualifies(last'.input.message)))]_vars

\* C23 witness: the 'no' of a delete confirmation was activated and both guides
\* are in the catalog.
C23_Witness ==
    /\ last.op = "button_callback_cancel_delete"
    /\ Heading(reply) = "delete_cancelled"
    /\ DOMAIN guides = {1, 2}

\* ------------------------------------------------------ removing a guide
\* every control of every message the last handler sent
ControlsSent == UNION {ControlsOf(reply[k]) : k \in 1..Len(reply)}

\* a message with a control that confirms the deletion of guide i was sent by
\* delete-select on guide i, names guide i, and offers yes and no
ConfirmationsFromSelect ==
    \A i \in Ids :
        (\E b \in ControlsSent : b.callback_data = D_confirm_delete \o Colon \o IdStr(i))
        => /\ last.op = "button_callback_delete"
           /\ last.input.data = M_delete \o Colon \o IdStr(i)
           /\ i \in DOMAIN guides
           /\ Len(reply) = 1
           /\ reply[1].text
                  = [heading |-> "confirm_delete",
                     items |-> <<[title |-> guides[i].title, link |-> None]>>]
           /\ {b.callback_data : b \in ControlsSent}
                  = {D_confirm_delete \o Colon \o IdStr(i), D_cancel_delete}

C25_MergePicksDistinct ==
    (last.op = "button_callback_merge_second" /\ Heading(reply) = "confirm_merge")
    => \A i \in Ids :
           YesData # D_confirm_merge \o Colon \o IdStr(i) \o Colon \o IdStr(i)

====
